---- MODULE Spec2Model ----
(***************************************************************************)
(* ELF32 identification check, file-header decode and program-header-table *)
(* decode of mark_readelf, as a state machine over one input buffer.       *)
(*                                                                         *)
(* Bytes are integers 0..255, a buffer is a sequence of bytes.  Rust's     *)
(* 0-based index i is the TLA+ index i+1.  A panic (slice index out of     *)
(* range) is the outcome kind "Panic", distinct from Ok and Err.           *)
(*                                                                         *)
(* A u8 or u16 is the integer itself.  TLC's integers stop at 2^31 - 1, so *)
(* a u32 is written as its two 16-bit halves <<high, low>>, which keeps    *)
(* the whole range 0 .. 2^32 - 1.  Cursor offsets (usize) are integers.    *)
(***************************************************************************)
EXTENDS Integers, Naturals, Sequences, FiniteSets, TLC

VARIABLES
    buffer,        \* the input: &[u8] handed to parse_elf_header_32
    pc,            \* position inside parse_elf_header_32 / the table decode
    parser,        \* Parser { offset, buffer } of the running decode
    locals,        \* the let-bindings of parse_elf_header_32 made so far
    result,        \* outcome of parse_elf_header_32
    table,         \* program header entries decoded so far
    table_result   \* outcome of the program header table decode

vars == <<buffer, pc, parser, locals, result, table, table_result>>

-----------------------------------------------------------------------------
(* abi:: constants used by parse.rs *)

EI_CLASS == 4
EI_DATA == 5
EI_VERSION == 6
EI_OSABI == 7
EI_ABIVERSION == 8
EI_NIDENT == 16
ELFMAGIC == <<127, 69, 76, 70>>
ELFCLASS32 == 1
ELFDATA2LSB == 1
EV_CURRENT == 1

-----------------------------------------------------------------------------
(* Little-endian integers *)

Byte == 0..255

\* u16::from_le_bytes
U16FromLeBytes(s) == s[1] + 256 * s[2]

\* the u32 with the given 16-bit halves
U32(high, low) == <<high, low>>

\* the u32 of an integer below 2^31
U32Of(n) == U32(n \div 65536, n % 65536)

\* u32::from_be_bytes: the bytes taken in the opposite order
U32FromBeBytes(s) == U32(s[2] + 256 * s[1], s[4] + 256 * s[3])

\* u32::from_le_bytes
U32FromLeBytes(s) == U32(s[3] + 256 * s[4], s[1] + 256 * s[2])

-----------------------------------------------------------------------------
(* ParseError values *)

BadMagic(m) == [tag |-> "BadMagic", val |-> m]
UnsupportedElfClass(c) == [tag |-> "UnsupportedElfClass", val |-> c]
UnsupportedElfEndianness(e) == [tag |-> "UnsupportedElfEndianness", val |-> e]
UnsupportedVersion(found, expected) ==
    [tag |-> "UnsupportedVersion", val |-> <<found, expected>>]
UnsupportedFileType(t) == [tag |-> "UnsupportedFileType", val |-> t]
SliceReadError(start, end) == [tag |-> "SliceReadError", val |-> <<start, end>>]

\* Result<T, ParseError>, plus the panic that is no Result at all
Ok(v) == [kind |-> "Ok", val |-> v]
Err(e) == [kind |-> "Err", err |-> e]
Panic == [kind |-> "Panic"]
Pending == [kind |-> "Pending"]

-----------------------------------------------------------------------------
(* Parser: the cursor.  Each read returns the Result and the parser after   *)
(* the call.                                                                *)

\* Parser::new
ParserNew(buf) == [offset |-> 0, buffer |-> buf]

\* slice.get(start..end)
SliceGet(buf, start, end) ==
    IF start <= end /\ end <= Len(buf)
    THEN Ok(SubSeq(buf, start + 1, end))
    ELSE [kind |-> "None"]

\* parse_u8 advancing by the width of a u16
parse_u8_AdvancesTwo(p) ==
    LET start == p.offset
        end == p.offset + 2
    IN  IF start < Len(p.buffer)
        THEN [res |-> Ok(p.buffer[start + 1]), parser |-> [p EXCEPT !.offset = end]]
        ELSE [res |-> Err(SliceReadError(start, start + 1)), parser |-> p]

\* Parser::parse_u8
parse_u8(p) ==
    LET start == p.offset
        end == p.offset + 1
    IN  IF start < Len(p.buffer)
        THEN [res |-> Ok(p.buffer[start + 1]), parser |-> [p EXCEPT !.offset = end]]
        ELSE [res |-> Err(SliceReadError(start, end)), parser |-> p]

\* parse_u16 storing the new offset before the bounds check
parse_u16_AdvancesOnError(p) ==
    LET start == p.offset
        end == p.offset + 2
        slice == SliceGet(p.buffer, start, end)
    IN  IF slice.kind = "Ok"
        THEN [res |-> Ok(U16FromLeBytes(slice.val)),
              parser |-> [p EXCEPT !.offset = end]]
        ELSE [res |-> Err(SliceReadError(start, end)),
              parser |-> [p EXCEPT !.offset = end]]

\* Parser::parse_u16
parse_u16(p) ==
    LET start == p.offset
        end == p.offset + 2
        slice == SliceGet(p.buffer, start, end)
    IN  IF slice.kind = "Ok"
        THEN [res |-> Ok(U16FromLeBytes(slice.val)),
              parser |-> [p EXCEPT !.offset = end]]
        ELSE [res |-> Err(SliceReadError(start, end)), parser |-> p]

\* parse_u32 reporting the range of a 2-byte read when it fails
parse_u32_RangeOfU16(p) ==
    LET start == p.offset
        end == p.offset + 4
        slice == SliceGet(p.buffer, start, end)
    IN  IF slice.kind = "Ok"
        THEN [res |-> Ok(U32FromLeBytes(slice.val)),
              parser |-> [p EXCEPT !.offset = end]]
        ELSE [res |-> Err(SliceReadError(start, start + 2)), parser |-> p]

\* Parser::parse_u32
parse_u32(p) ==
    LET start == p.offset
        end == p.offset + 4
        slice == SliceGet(p.buffer, start, end)
    IN  IF slice.kind = "Ok"
        THEN [res |-> Ok(U32FromLeBytes(slice.val)),
              parser |-> [p EXCEPT !.offset = end]]
        ELSE [res |-> Err(SliceReadError(start, end)), parser |-> p]

\* skip_u32 advancing by the width of a u16
skip_u32_AsU16(p) == [p EXCEPT !.offset = @ + 2]

\* Parser::skip_u8 / skip_u16 / skip_u32
skip_u8(p) == [p EXCEPT !.offset = @ + 1]
skip_u16(p) == [p EXCEPT !.offset = @ + 2]
skip_u32(p) == [p EXCEPT !.offset = @ + 4]

-----------------------------------------------------------------------------
(* Identification region *)

\* verify_e_ident with the data-encoding check moved before the class check
verify_e_ident_DataFirst(ident) ==
    LET magic == SubSeq(ident, 1, EI_CLASS)
        class == ident[EI_CLASS + 1]
        endianness == ident[EI_DATA + 1]
        specification_version == ident[EI_VERSION + 1]
    IN  IF magic # ELFMAGIC
        THEN Err(BadMagic(<<magic[1], magic[2], magic[3], magic[4]>>))
        ELSE IF endianness # ELFDATA2LSB
        THEN Err(UnsupportedElfEndianness(endianness))
        ELSE IF class # ELFCLASS32
        THEN Err(UnsupportedElfClass(class))
        ELSE IF specification_version # EV_CURRENT
        THEN Err(UnsupportedVersion(specification_version, EV_CURRENT))
        ELSE Ok(<<>>)

\* verify_e_ident, on a slice of EI_NIDENT bytes
verify_e_ident(ident) ==
    LET magic == SubSeq(ident, 1, EI_CLASS)
        class == ident[EI_CLASS + 1]
        endianness == ident[EI_DATA + 1]
        specification_version == ident[EI_VERSION + 1]
    IN  IF magic # ELFMAGIC
        THEN Err(BadMagic(<<magic[1], magic[2], magic[3], magic[4]>>))
        ELSE IF class # ELFCLASS32
        THEN Err(UnsupportedElfClass(class))
        ELSE IF endianness # ELFDATA2LSB
        THEN Err(UnsupportedElfEndianness(endianness))
        ELSE IF specification_version # EV_CURRENT
        THEN Err(UnsupportedVersion(specification_version, EV_CURRENT))
        ELSE Ok(<<>>)

\* parse_e_ident taking both bytes one position early
parse_e_ident_OneEarly(ident) ==
    LET verified == verify_e_ident(ident)
    IN  IF verified.kind # "Ok"
        THEN verified
        ELSE Ok([os_abi |-> ident[EI_OSABI], abi_version |-> ident[EI_ABIVERSION]])

\* parse_e_ident
parse_e_ident(ident) ==
    LET verified == verify_e_ident(ident)
    IN  IF verified.kind # "Ok"
        THEN verified
        ELSE Ok([os_abi |-> ident[EI_OSABI + 1],
                 abi_version |-> ident[EI_ABIVERSION + 1]])

\* the match with a catch-all arm that passes unknown codes through as None
FileTypeOf_PassThrough(code) ==
    CASE code = 1 -> Ok("Rel")
      [] code = 2 -> Ok("Exec")
      [] code = 3 -> Ok("Dyn")
      [] code = 4 -> Ok("Core")
      [] OTHER -> Ok("None")

\* the match on the file-type code in parse_elf_header_32
FileTypeOf(code) ==
    CASE code = 0 -> Ok("None")
      [] code = 1 -> Ok("Rel")
      [] code = 2 -> Ok("Exec")
      [] code = 3 -> Ok("Dyn")
      [] code = 4 -> Ok("Core")
      [] OTHER -> Err(UnsupportedFileType(code))

-----------------------------------------------------------------------------
(* parse_elf_header_32, one action per statement *)

\* a let-binding: the locals with name bound to v
Bind(l, name, v) == [f \in (DOMAIN l) \cup {name} |-> IF f = name THEN v ELSE l[f]]

NoLocals == [f \in {} |-> 0]

\* the fields of ElfHeader32
HeaderFields ==
    {"os_abi", "abi_version", "file_type", "machine", "entry",
     "program_header_offset", "section_header_offset", "elf_header_size",
     "program_header_entry_size", "program_header_entries",
     "section_header_entry_size", "section_header_entries",
     "string_table_index"}

\* parser.parse_u16() or parser.parse_u32(), by the width of the field
ParseUint(p, width) == IF width = 2 THEN parse_u16(p) ELSE parse_u32(p)

\* `let name = parser.parse_uN()?;` at position here, continuing at next
ReadField(here, next, name, width) ==
    /\ pc = here
    /\ LET r == ParseUint(parser, width)
       IN  IF r.res.kind = "Ok"
           THEN /\ locals' = Bind(locals, name, r.res.val)
                /\ parser' = r.parser
                /\ pc' = next
                /\ UNCHANGED result
           ELSE /\ result' = r.res
                /\ pc' = "done"
                /\ UNCHANGED <<locals, parser>>
    /\ UNCHANGED <<buffer, table, table_result>>

\* `parser.skip_u32();` at position here, continuing at next
SkipField(here, next) ==
    /\ pc = here
    /\ parser' = skip_u32(parser)
    /\ pc' = next
    /\ UNCHANGED <<buffer, locals, result, table, table_result>>

\* let (os_abi, abi_version) = parse_e_ident(&buffer[..abi::EI_NIDENT])?;
ParseEIdent ==
    /\ pc = "start"
    /\ IF Len(buffer) < EI_NIDENT
       THEN \* &buffer[..16] on a shorter slice: range end index out of range
            /\ result' = Panic
            /\ pc' = "done"
            /\ UNCHANGED locals
       ELSE LET r == parse_e_ident(SubSeq(buffer, 1, EI_NIDENT))
            IN  IF r.kind = "Ok"
                THEN /\ locals' = Bind(Bind(locals, "os_abi", r.val.os_abi),
                                       "abi_version", r.val.abi_version)
                     /\ pc' = "new_parser"
                     /\ UNCHANGED result
                ELSE /\ result' = r
                     /\ pc' = "done"
                     /\ UNCHANGED locals
    /\ UNCHANGED <<buffer, parser, table, table_result>>

\* let mut parser = Parser::new(&buffer[abi::EI_NIDENT..]);
NewParser ==
    /\ pc = "new_parser"
    /\ parser' = ParserNew(SubSeq(buffer, EI_NIDENT + 1, Len(buffer)))
    /\ pc' = "file_type"
    /\ UNCHANGED <<buffer, locals, result, table, table_result>>

\* let file_type = parser.parse_u16()?; let file_type = match file_type {..}?;
ReadFileType ==
    /\ pc = "file_type"
    /\ LET r == parse_u16(parser)
       IN  IF r.res.kind # "Ok"
           THEN /\ result' = r.res
                /\ pc' = "done"
                /\ UNCHANGED <<locals, parser>>
           ELSE LET file_type == FileTypeOf(r.res.val)
                IN  /\ parser' = r.parser
                    /\ IF file_type.kind = "Ok"
                       THEN /\ locals' = Bind(locals, "file_type", file_type.val)
                            /\ pc' = "machine"
                            /\ UNCHANGED result
                       ELSE /\ result' = file_type
                            /\ pc' = "done"
                            /\ UNCHANGED locals
    /\ UNCHANGED <<buffer, table, table_result>>

\* the machine code read like the file type: a closed set, else an error
ReadMachine_KnownOnly ==
    /\ pc = "machine"
    /\ LET r == parse_u16(parser)
       IN  IF r.res.kind = "Ok" /\ r.res.val \in {0, 3, 62}
           THEN /\ locals' = Bind(locals, "machine", r.res.val)
                /\ parser' = r.parser
                /\ pc' = "e_version"
                /\ UNCHANGED result
           ELSE /\ result' = IF r.res.kind = "Ok"
                             THEN Err(UnsupportedFileType(r.res.val))
                             ELSE r.res
                /\ pc' = "done"
                /\ UNCHANGED <<locals, parser>>
    /\ UNCHANGED <<buffer, table, table_result>>

ReadMachine == ReadField("machine", "e_version", "machine", 2)
\* e_version read and held to EV_CURRENT instead of skipped
SkipVersion_Checked ==
    /\ pc = "e_version"
    /\ LET r == parse_u32(parser)
       IN  IF r.res.kind = "Ok" /\ r.res.val = U32Of(EV_CURRENT)
           THEN /\ parser' = r.parser
                /\ pc' = "entry"
                /\ UNCHANGED result
           ELSE /\ result' = IF r.res.kind = "Ok"
                             THEN Err(UnsupportedVersion(r.res.val, U32Of(EV_CURRENT)))
                             ELSE r.res
                /\ pc' = "done"
                /\ UNCHANGED parser
    /\ UNCHANGED <<buffer, locals, table, table_result>>

SkipVersion == SkipField("e_version", "entry")
ReadEntry == ReadField("entry", "program_header_offset", "entry", 4)
ReadProgramHeaderOffset ==
    ReadField("program_header_offset", "section_header_offset",
              "program_header_offset", 4)
ReadSectionHeaderOffset ==
    ReadField("section_header_offset", "flags", "section_header_offset", 4)
SkipFlags == SkipField("flags", "elf_header_size")
ReadElfHeaderSize ==
    ReadField("elf_header_size", "program_header_entry_size",
              "elf_header_size", 2)
ReadProgramHeaderEntrySize ==
    ReadField("program_header_entry_size", "program_header_entries",
              "program_header_entry_size", 2)
ReadProgramHeaderEntries ==
    ReadField("program_header_entries", "section_header_entry_size",
              "program_header_entries", 2)
ReadSectionHeaderEntrySize ==
    ReadField("section_header_entry_size", "section_header_entries",
              "section_header_entry_size", 2)
ReadSectionHeaderEntries ==
    ReadField("section_header_entries", "string_table_index",
              "section_header_entries", 2)
ReadStringTableIndex ==
    ReadField("string_table_index", "build", "string_table_index", 2)

\* Ok(ElfHeader32 { os_abi, abi_version, file_type, ... })
BuildHeader ==
    /\ pc = "build"
    /\ result' = Ok(locals)
    /\ pc' = "header_done"
    /\ UNCHANGED <<buffer, parser, locals, table, table_result>>

-----------------------------------------------------------------------------
(* Program header table decode (spec.md 4.3): a fresh cursor at the        *)
(* declared offset, then program_header_entries entries of eight 4-byte    *)
(* little-endian fields each.                                              *)

PT_GNU_STACK == U32Of(1685382481)

UnsupportedProgramHeaderType(t) ==
    [tag |-> "UnsupportedProgramHeaderType", val |-> t]

\* the closed enumeration HeaderType, from the on-disk code
HeaderTypeOf(code) ==
    CASE code = U32Of(0) -> Ok("Null")
      [] code = U32Of(1) -> Ok("Load")
      [] code = U32Of(2) -> Ok("Dynamic")
      [] code = U32Of(3) -> Ok("Interpreter")
      [] code = U32Of(4) -> Ok("Note")
      [] code = U32Of(6) -> Ok("ProgramHeaderTable")
      [] code = PT_GNU_STACK -> Ok("GnuStack")
      [] OTHER -> Err(UnsupportedProgramHeaderType(code))

\* `as usize` of a u32 (exact on a 64-bit host)
ToUsize(v) == v[1] * 65536 + v[2]

\* the cursor of the table decode: the whole buffer, positioned at offset
ParserAt(buf, offset) == [offset |-> offset, buffer |-> buf]

\* n successive parse_u32 reads, stopping at the first error
RECURSIVE ReadU32s(_, _)
ReadU32s(p, n) ==
    IF n = 0
    THEN [res |-> Ok(<<>>), parser |-> p]
    ELSE LET r == parse_u32(p)
         IN  IF r.res.kind # "Ok"
             THEN r
             ELSE LET rest == ReadU32s(r.parser, n - 1)
                  IN  IF rest.res.kind # "Ok"
                      THEN rest
                      ELSE [res |-> Ok(<<r.res.val>> \o rest.res.val),
                            parser |-> rest.parser]

\* one ProgramHeader: the type code, mapped, then the seven other fields
ParseProgramHeaderEntry(p) ==
    LET t == parse_u32(p)
    IN  IF t.res.kind # "Ok"
        THEN t
        ELSE LET header_type == HeaderTypeOf(t.res.val)
             IN  IF header_type.kind # "Ok"
                 THEN [res |-> header_type, parser |-> t.parser]
                 ELSE LET r == ReadU32s(t.parser, 7)
                      IN  IF r.res.kind # "Ok"
                          THEN r
                          ELSE [res |-> Ok([header_type |-> header_type.val,
                                            offset |-> r.res.val[1],
                                            virtual_address |-> r.res.val[2],
                                            physical_address |-> r.res.val[3],
                                            size_in_file |-> r.res.val[4],
                                            size_in_memory |-> r.res.val[5],
                                            flags |-> r.res.val[6],
                                            alignment |-> r.res.val[7]]),
                                parser |-> r.parser]

\* the table decode going on where the header decode stopped, at byte 52
NewTableParser_Contiguous ==
    /\ pc = "header_done"
    /\ result.kind = "Ok"
    /\ parser' = ParserAt(buffer, EI_NIDENT + parser.offset)
    /\ table' = <<>>
    /\ pc' = "ph_entry"
    /\ UNCHANGED <<buffer, locals, result, table_result>>

\* the caller positions a fresh cursor at header.program_header_offset
NewTableParser ==
    /\ pc = "header_done"
    /\ result.kind = "Ok"
    /\ parser' = ParserAt(buffer, ToUsize(result.val.program_header_offset))
    /\ table' = <<>>
    /\ pc' = "ph_entry"
    /\ UNCHANGED <<buffer, locals, result, table_result>>

\* the table decode keeping the entries it decoded before an error
ParseProgramHeader_KeepsEntries ==
    /\ pc = "ph_entry"
    /\ Len(table) < result.val.program_header_entries
    /\ LET r == ParseProgramHeaderEntry(parser)
       IN  IF r.res.kind = "Ok"
           THEN /\ table' = Append(table, r.res.val)
                /\ parser' = r.parser
                /\ UNCHANGED <<pc, table_result>>
           ELSE /\ table_result' = r.res
                /\ parser' = r.parser
                /\ pc' = "done"
                /\ UNCHANGED table
    /\ UNCHANGED <<buffer, locals, result>>

\* decode entry number Len(table); an error drops the entries decoded so far
ParseProgramHeader ==
    /\ pc = "ph_entry"
    /\ Len(table) < result.val.program_header_entries
    /\ LET r == ParseProgramHeaderEntry(parser)
       IN  IF r.res.kind = "Ok"
           THEN /\ table' = Append(table, r.res.val)
                /\ parser' = r.parser
                /\ UNCHANGED <<pc, table_result>>
           ELSE /\ table_result' = r.res
                /\ table' = <<>>
                /\ parser' = r.parser
                /\ pc' = "done"
    /\ UNCHANGED <<buffer, locals, result>>

\* all declared entries decoded: the table is returned
FinishTable ==
    /\ pc = "ph_entry"
    /\ Len(table) = result.val.program_header_entries
    /\ table_result' = Ok(table)
    /\ pc' = "done"
    /\ UNCHANGED <<buffer, parser, locals, result, table>>

-----------------------------------------------------------------------------
(* Input buffers.  A buffer is laid out from its parts by the ELF32 layout, *)
(* then possibly truncated.                                                *)

\* most program header entries written behind a header
MaxPhnum == 2
\* most 4-byte words between the header and the table
MaxGap == 1

\* to_le_bytes of a u16 / u32
U16ToLeBytes(v) == <<v % 256, (v \div 256) % 256>>
U32ToLeBytes(v) == U16ToLeBytes(v[2]) \o U16ToLeBytes(v[1])

\* n copies of byte b
Fill(n, b) == [i \in 1..n |-> b]

\* the first n bytes of s
Truncate(s, n) == SubSeq(s, 1, n)

\* the 16 identification bytes
IdentBytes(magic, class, data, version, os_abi, abi_version, pad) ==
    magic \o <<class, data, version, os_abi, abi_version>> \o Fill(7, pad)

\* the 36 bytes behind the identification bytes, from raw on-disk codes
HeaderBytes(e) ==
    U16ToLeBytes(e.e_type) \o U16ToLeBytes(e.e_machine) \o U32ToLeBytes(e.e_version)
    \o U32ToLeBytes(e.e_entry) \o U32ToLeBytes(e.e_phoff) \o U32ToLeBytes(e.e_shoff)
    \o U32ToLeBytes(e.e_flags) \o U16ToLeBytes(e.e_ehsize)
    \o U16ToLeBytes(e.e_phentsize) \o U16ToLeBytes(e.e_phnum)
    \o U16ToLeBytes(e.e_shentsize) \o U16ToLeBytes(e.e_shnum)
    \o U16ToLeBytes(e.e_shstrndx)

\* the 32 bytes of one program header entry
PhBytes(ph) ==
    U32ToLeBytes(ph.p_type) \o U32ToLeBytes(ph.p_offset) \o U32ToLeBytes(ph.p_vaddr)
    \o U32ToLeBytes(ph.p_paddr) \o U32ToLeBytes(ph.p_filesz)
    \o U32ToLeBytes(ph.p_memsz) \o U32ToLeBytes(ph.p_flags)
    \o U32ToLeBytes(ph.p_align)

RECURSIVE TableBytes(_)
TableBytes(phs) ==
    IF phs = <<>> THEN <<>> ELSE PhBytes(Head(phs)) \o TableBytes(Tail(phs))

\* the example of spec.md 8: an executable for x86 with one load segment
BaseRaw ==
    [e_type |-> 2, e_machine |-> 3, e_version |-> U32Of(1),
     e_entry |-> U32Of(134512640), e_phoff |-> U32Of(52), e_shoff |-> U32Of(0),
     e_flags |-> U32Of(0), e_ehsize |-> 52,
     e_phentsize |-> 32, e_phnum |-> 1, e_shentsize |-> 40, e_shnum |-> 0,
     e_shstrndx |-> 0]

BasePh ==
    [p_type |-> U32Of(1), p_offset |-> U32Of(0), p_vaddr |-> U32Of(134512640),
     p_paddr |-> U32Of(134512640), p_filesz |-> U32Of(256),
     p_memsz |-> U32Of(256), p_flags |-> U32Of(5), p_align |-> U32Of(4096)]

\* an entry whose eight fields and their bytes are all different
OddPh ==
    [p_type |-> U32Of(1), p_offset |-> U32Of(16909060), p_vaddr |-> U32Of(84281096),
     p_paddr |-> U32Of(151653132), p_filesz |-> U32(61937, 62451),
     p_memsz |-> U32Of(286397204), p_flags |-> U32Of(353769240),
     p_align |-> U32(65535, 65534)]

GoodIdent == IdentBytes(ELFMAGIC, ELFCLASS32, ELFDATA2LSB, EV_CURRENT, 0, 0, 0)

BaseBuffer == GoodIdent \o HeaderBytes(BaseRaw) \o PhBytes(BasePh)

MagicSamples ==
    {ELFMAGIC, <<0, 69, 76, 70>>, <<127, 0, 76, 70>>, <<127, 69, 0, 70>>,
     <<127, 69, 76, 0>>, <<70, 76, 69, 127>>, <<0, 0, 0, 0>>,
     <<255, 255, 255, 255>>}

IdentByteSamples == {0, 1, 2, 255}

\* identification bytes of every kind, before a header, nothing, or garbage
IdentBuffers ==
    { IdentBytes(m, c, d, v, 0, 0, 0) \o rest :
        m \in MagicSamples, c \in IdentByteSamples, d \in IdentByteSamples,
        v \in IdentByteSamples,
        rest \in {HeaderBytes(BaseRaw) \o PhBytes(BasePh), <<>>, Fill(36, 255)} }

\* a well-formed file, and two with a bad identification, cut at every length
TruncatedBuffers ==
    { Truncate(IdentBytes(m, c, ELFDATA2LSB, EV_CURRENT, 0, 0, 0)
               \o HeaderBytes(BaseRaw) \o PhBytes(BasePh), n) :
        m \in {ELFMAGIC, <<127, 69, 76, 0>>}, c \in {ELFCLASS32, 2},
        n \in 0..Len(BaseBuffer) }

FileTypeSamples == {0, 1, 2, 3, 4, 5, 6, 255, 256, 258, 1024, 65535}
MachineSamples == {0, 3, 62, 258, 65535}

\* every file-type code with every machine code
FileTypeBuffers ==
    { GoodIdent \o HeaderBytes([BaseRaw EXCEPT !.e_type = t, !.e_machine = m])
                \o PhBytes(BasePh) :
        t \in FileTypeSamples, m \in MachineSamples }

\* every OS/ABI byte and every ABI-version byte
AbiBuffers ==
    { IdentBytes(ELFMAGIC, ELFCLASS32, ELFDATA2LSB, EV_CURRENT, ab[1], ab[2], 0)
      \o HeaderBytes(BaseRaw) \o PhBytes(BasePh) :
        ab \in (Byte \X {0, 1, 255}) \cup ({0, 3, 255} \X Byte) }

\* the on-disk code of a FileType
FileTypeCode(file_type) ==
    CASE file_type = "None" -> 0
      [] file_type = "Rel" -> 1
      [] file_type = "Exec" -> 2
      [] file_type = "Dyn" -> 3
      [] file_type = "Core" -> 4

FileTypes == {"None", "Rel", "Exec", "Dyn", "Core"}

\* the spec.md 8 example as an ElfHeader32, and one whose bytes all differ
BaseHeader ==
    [os_abi |-> 0, abi_version |-> 0, file_type |-> "Exec", machine |-> 3,
     entry |-> U32Of(134512640), program_header_offset |-> U32Of(52),
     section_header_offset |-> U32Of(0), elf_header_size |-> 52,
     program_header_entry_size |-> 32, program_header_entries |-> 1,
     section_header_entry_size |-> 40, section_header_entries |-> 0,
     string_table_index |-> 0]

OddHeader ==
    [os_abi |-> 3, abi_version |-> 9, file_type |-> "Dyn", machine |-> 258,
     entry |-> U32(61684, 62198), program_header_offset |-> U32Of(117967114),
     section_header_offset |-> U32Of(185339150), elf_header_size |-> 3856,
     program_header_entry_size |-> 4370, program_header_entries |-> 4884,
     section_header_entry_size |-> 5398, section_header_entries |-> 5912,
     string_table_index |-> 6426]

U8Samples == {0, 1, 255}
U16Samples == {0, 1, 255, 256, 258, 65535}
U32Samples ==
    {U32Of(0), U32Of(1), U32Of(16909060), U32(32768, 0), U32(65535, 65535)}

\* offsets of the table: a cursor offset is an integer, so below 2^31
OffsetSamples == {U32Of(0), U32Of(1), U32Of(52), U32Of(16909060), U32(16384, 0)}

\* the samples of a u32 field
U32SamplesOf(f) == IF f = "program_header_offset" THEN OffsetSamples ELSE U32Samples

U16Fields ==
    {"machine", "elf_header_size", "program_header_entry_size",
     "program_header_entries", "section_header_entry_size",
     "section_header_entries", "string_table_index"}
U32Fields == {"entry", "program_header_offset", "section_header_offset"}

\* ElfHeader32 values: both bases with one field set to each of its samples
HeaderValues ==
    UNION { { [b EXCEPT ![f] = v] : f \in {"os_abi", "abi_version"}, v \in U8Samples }
            \cup { [b EXCEPT ![f] = v] : f \in U16Fields, v \in U16Samples }
            \cup UNION { { [b EXCEPT ![f] = v] : v \in U32SamplesOf(f) } :
                          f \in U32Fields }
            \cup { [b EXCEPT !.file_type = v] : v \in FileTypes }
          : b \in {BaseHeader, OddHeader} }

\* a header written at the ELF32 layout behind a valid identification;
\* version and flags are the two 4-byte fields the header does not hold
WriteElfHeader32(h, version, flags, pad) ==
    IdentBytes(ELFMAGIC, ELFCLASS32, ELFDATA2LSB, EV_CURRENT,
               h.os_abi, h.abi_version, pad)
    \o HeaderBytes([e_type |-> FileTypeCode(h.file_type), e_machine |-> h.machine,
                    e_version |-> version, e_entry |-> h.entry,
                    e_phoff |-> h.program_header_offset,
                    e_shoff |-> h.section_header_offset, e_flags |-> flags,
                    e_ehsize |-> h.elf_header_size,
                    e_phentsize |-> h.program_header_entry_size,
                    e_phnum |-> h.program_header_entries,
                    e_shentsize |-> h.section_header_entry_size,
                    e_shnum |-> h.section_header_entries,
                    e_shstrndx |-> h.string_table_index])

HeaderBuffers ==
    { WriteElfHeader32(h, U32Of(1), U32Of(0), 0) \o rest :
        h \in HeaderValues, rest \in {<<>>, PhBytes(BasePh)} }
    \cup { WriteElfHeader32(h, version, flags, pad) :
             h \in {BaseHeader, OddHeader}, version \in {U32Of(0), U32Of(1), U32(65535, 65535)},
             flags \in {U32Of(0), U32Of(16909060)}, pad \in {0, 255} }

PhTypeSamples ==
    { U32Of(t) : t \in 0..7 } \cup {PT_GNU_STACK, U32(65535, 65535)}

PhSamples ==
    { [BasePh EXCEPT !.p_type = t] : t \in PhTypeSamples }
    \cup {OddPh, [OddPh EXCEPT !.p_type = U32Of(5)]}

SeqsUpTo(S, n) == UNION { [1..k -> S] : k \in 0..n }

\* a valid header declaring Len(phs) entries at 52 + 4*gap, the entries
\* there, and the last cut bytes of the file missing
TableBuffer(phs, gap, cut) ==
    LET full == GoodIdent
                \o HeaderBytes([BaseRaw EXCEPT !.e_phoff = U32Of(52 + 4 * gap),
                                               !.e_phnum = Len(phs)])
                \o Fill(4 * gap, 170) \o TableBytes(phs)
    IN  Truncate(full, IF Len(full) - cut >= 52 THEN Len(full) - cut ELSE Len(full))

TableBuffers ==
    { TableBuffer(phs, gap, cut) :
        phs \in SeqsUpTo(PhSamples, MaxPhnum), gap \in 0..MaxGap, cut \in {0, 1, 29} }

\* lengths at which a buffer ends before, inside and behind the padding,
\* the version field and the flags field
UnvalidatedCuts == {9, 12, 16, 17, 19, 21, 22, 24, 27, 37, 38, 40, 43, 51}

\* buffers that differ in the unvalidated bytes only: two headers and one
\* with a rejected class, with every padding, version and flags sample,
\* cut at every length above
UnvalidatedBuffers ==
    { Truncate(IF class = ELFCLASS32
               THEN WriteElfHeader32(h, version, flags, pad)
               ELSE IdentBytes(ELFMAGIC, class, ELFDATA2LSB, EV_CURRENT, 0, 0, pad)
                    \o SubSeq(WriteElfHeader32(h, version, flags, pad), 17, 52), n) :
        h \in {BaseHeader, OddHeader}, class \in {ELFCLASS32, 2},
        version \in {U32Of(1), U32(65535, 65535)},
        flags \in {U32Of(0), U32Of(16909060)}, pad \in {0, 255},
        n \in UnvalidatedCuts }

InputBuffers ==
    IdentBuffers \cup TruncatedBuffers \cup FileTypeBuffers \cup AbiBuffers
    \cup HeaderBuffers \cup TableBuffers \cup UnvalidatedBuffers

-----------------------------------------------------------------------------

Init ==
    /\ buffer \in InputBuffers
    /\ pc = "start"
    /\ parser = ParserNew(<<>>)
    /\ locals = NoLocals
    /\ result = Pending
    /\ table = <<>>
    /\ table_result = Pending

Next ==
    \/ ParseEIdent
    \/ NewParser
    \/ ReadFileType
    \/ ReadMachine
    \/ SkipVersion
    \/ ReadEntry
    \/ ReadProgramHeaderOffset
    \/ ReadSectionHeaderOffset
    \/ SkipFlags
    \/ ReadElfHeaderSize
    \/ ReadProgramHeaderEntrySize
    \/ ReadProgramHeaderEntries
    \/ ReadSectionHeaderEntrySize
    \/ ReadSectionHeaderEntries
    \/ ReadStringTableIndex
    \/ BuildHeader
    \/ NewTableParser
    \/ ParseProgramHeader
    \/ FinishTable

Spec == Init /\ [][Next]_vars

-----------------------------------------------------------------------------
(* Properties *)

\* parse_elf_header_32 has returned (or panicked)
HeaderDecided == result.kind # "Pending"

\* bytes at 0-based offset off of buf are exactly bytes
At(buf, off, bytes) ==
    /\ Len(buf) >= off + Len(bytes)
    /\ SubSeq(buf, off + 1, off + Len(bytes)) = bytes

\* the four checked identification bytes are the accepted ones
IdentValid(buf) ==
    /\ Len(buf) >= 16
    /\ At(buf, 0, <<127, 69, 76, 70>>)
    /\ buf[5] = 1
    /\ buf[6] = 1
    /\ buf[7] = 1

\* C1: for every input buffer whose first 4 bytes are not 0x7F 'E' 'L' 'F',
\* parse_elf_header_32 fails with BadMagic carrying exactly those 4 bytes,
\* whatever the remaining bytes (and however many) are.
C1_BadMagicForEveryBuffer ==
    (HeaderDecided /\ Len(buffer) >= 4 /\ ~At(buffer, 0, <<127, 69, 76, 70>>))
        => result = Err(BadMagic(SubSeq(buffer, 1, 4)))

\* C2: for every buffer with the correct magic and a class byte other than
\* ELFCLASS32, parse_elf_header_32 fails with UnsupportedElfClass carrying
\* that byte, regardless of everything behind the class byte.
C2_UnsupportedClassForEveryBuffer ==
    (HeaderDecided /\ Len(buffer) >= 5 /\ At(buffer, 0, <<127, 69, 76, 70>>)
       /\ buffer[5] # 1)
        => result = Err(UnsupportedElfClass(buffer[5]))

\* the error tags verify_e_ident can return
IdentErrorTags ==
    {"BadMagic", "UnsupportedElfClass", "UnsupportedElfEndianness",
     "UnsupportedVersion"}

\* C1 and C2 from 16 bytes on, where the identification region exists
BadMagicFromSixteenBytes ==
    (HeaderDecided /\ Len(buffer) >= 16 /\ ~At(buffer, 0, <<127, 69, 76, 70>>))
        => result = Err(BadMagic(SubSeq(buffer, 1, 4)))

UnsupportedClassFromSixteenBytes ==
    (HeaderDecided /\ Len(buffer) >= 16 /\ At(buffer, 0, <<127, 69, 76, 70>>)
       /\ buffer[5] # 1)
        => result = Err(UnsupportedElfClass(buffer[5]))

\* C3: verify_e_ident checks magic, class, data encoding, version in this
\* order and returns the error of the earliest failing check; the version
\* error carries (found, expected current version); with no failing check
\* no identification error is returned.
C3_EarliestFailingCheck ==
    (pc # "start" /\ Len(buffer) >= 16) =>
        LET magicOk == At(buffer, 0, <<127, 69, 76, 70>>)
            classOk == buffer[5] = 1
            dataOk == buffer[6] = 1
            versionOk == buffer[7] = 1
        IN  /\ ~magicOk => result = Err(BadMagic(SubSeq(buffer, 1, 4)))
            /\ (magicOk /\ ~classOk) => result = Err(UnsupportedElfClass(buffer[5]))
            /\ (magicOk /\ classOk /\ ~dataOk)
                   => result = Err(UnsupportedElfEndianness(buffer[6]))
            /\ (magicOk /\ classOk /\ dataOk /\ ~versionOk)
                   => result = Err(UnsupportedVersion(buffer[7], 1))
            /\ (magicOk /\ classOk /\ dataOk /\ versionOk)
                   => ~(result.kind = "Err" /\ result.err.tag \in IdentErrorTags)

\* C3 witness: class, data encoding and version are all wrong behind a
\* correct magic, and the class error is the one returned
C3_Witness ==
    /\ Len(buffer) >= 16
    /\ At(buffer, 0, <<127, 69, 76, 70>>)
    /\ buffer[5] = 2 /\ buffer[6] = 255 /\ buffer[7] = 0
    /\ result = Err(UnsupportedElfClass(2))

\* C4: for every input buffer, also one shorter than 16 bytes,
\* parse_elf_header_32 ends with a completely populated header or with a
\* ParseError (the bounds error when the buffer is too short for the
\* identification region), and in no other way.
C4_HeaderOrParseError ==
    HeaderDecided =>
        \/ /\ result.kind = "Ok"
           /\ DOMAIN result.val = HeaderFields
        \/ /\ result.kind = "Err"
           /\ Len(buffer) < 16 => result.err.tag = "SliceReadError"

\* the fields of the 36 bytes behind the identification region: offset in
\* that region, width, and whether parse_elf_header_32 reads or skips it
HeaderLayout ==
    { [name |-> "file_type", offset |-> 0, width |-> 2, read |-> TRUE],
      [name |-> "machine", offset |-> 2, width |-> 2, read |-> TRUE],
      [name |-> "version", offset |-> 4, width |-> 4, read |-> FALSE],
      [name |-> "entry", offset |-> 8, width |-> 4, read |-> TRUE],
      [name |-> "program_header_offset", offset |-> 12, width |-> 4, read |-> TRUE],
      [name |-> "section_header_offset", offset |-> 16, width |-> 4, read |-> TRUE],
      [name |-> "flags", offset |-> 20, width |-> 4, read |-> FALSE],
      [name |-> "elf_header_size", offset |-> 24, width |-> 2, read |-> TRUE],
      [name |-> "program_header_entry_size", offset |-> 26, width |-> 2, read |-> TRUE],
      [name |-> "program_header_entries", offset |-> 28, width |-> 2, read |-> TRUE],
      [name |-> "section_header_entry_size", offset |-> 30, width |-> 2, read |-> TRUE],
      [name |-> "section_header_entries", offset |-> 32, width |-> 2, read |-> TRUE],
      [name |-> "string_table_index", offset |-> 34, width |-> 2, read |-> TRUE] }

\* the u16 stored little-endian at 0-based offset off of buf
Le16At(buf, off) == buf[off + 1] + 256 * buf[off + 2]

\* buf is the beginning of a well-formed ELF32 file: what it holds of the
\* validated fields is valid
WellFormedPrefix(buf) ==
    /\ IdentValid(buf)
    /\ Len(buf) >= 18 => Le16At(buf, 16) \in 0..4

\* buf ends 1 byte before field f completes
EndsInside(buf, f) == Len(buf) = 16 + f.offset + f.width - 1

\* C5 as stated: a well-formed buffer cut 1 byte before any multi-byte
\* header field completes, version and flags included, fails with the
\* bounds error whose range starts at that field's offset and has its width.
C5_BoundsErrorAtEveryField ==
    \A f \in HeaderLayout :
        (HeaderDecided /\ WellFormedPrefix(buffer) /\ EndsInside(buffer, f))
            => result = Err(SliceReadError(f.offset, f.offset + f.width))

\* C5 amended: the above for the fields the decoder reads, offsets counted
\* from the end of the identification region; inside the skipped version
\* (flags) field the failing read is the next one, entry (header size).
C5_BoundsErrorAtReadFields ==
    \A f \in HeaderLayout :
        (HeaderDecided /\ WellFormedPrefix(buffer) /\ EndsInside(buffer, f)) =>
            CASE f.read -> result = Err(SliceReadError(f.offset, f.offset + f.width))
              [] f.name = "version" -> result = Err(SliceReadError(8, 12))
              [] f.name = "flags" -> result = Err(SliceReadError(24, 26))

\* C5 witness: the file ends 1 byte before the flags field completes, and
\* the read of the header size has failed
C5_Witness ==
    /\ WellFormedPrefix(buffer)
    /\ Len(buffer) = 39
    /\ result = Err(SliceReadError(24, 26))

\* C6: behind a valid identification region the file-type codes 0..4 are
\* None, Rel, Exec, Dyn, Core, and every other 16-bit code fails with
\* UnsupportedFileType carrying the code.
C6_FileTypeMapping ==
    (IdentValid(buffer) /\ Len(buffer) >= 18
       /\ pc \notin {"start", "new_parser", "file_type"}) =>
        LET code == Le16At(buffer, 16)
        IN  IF code \in 0..4
            THEN /\ locals.file_type = <<"None", "Rel", "Exec", "Dyn", "Core">>[code + 1]
                 /\ result.kind = "Ok" => result.val.file_type = locals.file_type
                 /\ ~(result.kind = "Err" /\ result.err.tag = "UnsupportedFileType")
            ELSE result = Err(UnsupportedFileType(code))

\* C6 witness: the code 0x0102 has been rejected
C6_Witness ==
    /\ IdentValid(buffer)
    /\ At(buffer, 16, <<2, 1>>)
    /\ result = Err(UnsupportedFileType(258))

\* buf holds header h at the ELF32 layout behind a valid identification
WrittenAt(buf, h) ==
    /\ IdentValid(buf)
    /\ Len(buf) >= 52
    /\ buf[8] = h.os_abi
    /\ buf[9] = h.abi_version
    /\ At(buf, 16, U16ToLeBytes(FileTypeCode(h.file_type)))
    /\ At(buf, 18, U16ToLeBytes(h.machine))
    /\ At(buf, 24, U32ToLeBytes(h.entry))
    /\ At(buf, 28, U32ToLeBytes(h.program_header_offset))
    /\ At(buf, 32, U32ToLeBytes(h.section_header_offset))
    /\ At(buf, 40, U16ToLeBytes(h.elf_header_size))
    /\ At(buf, 42, U16ToLeBytes(h.program_header_entry_size))
    /\ At(buf, 44, U16ToLeBytes(h.program_header_entries))
    /\ At(buf, 46, U16ToLeBytes(h.section_header_entry_size))
    /\ At(buf, 48, U16ToLeBytes(h.section_header_entries))
    /\ At(buf, 50, U16ToLeBytes(h.string_table_index))

\* C7: a header written at the ELF32 layout behind a valid identification
\* region decodes to a header equal to it field for field.
C7_RoundTrip ==
    HeaderDecided =>
        \A h \in HeaderValues : WrittenAt(buffer, h) => result = Ok(h)

\* C7 witness: the header whose bytes all differ has been written and
\* decoded
C7_Witness ==
    /\ WrittenAt(buffer, OddHeader)
    /\ result = Ok(OddHeader)

\* C8: behind a passing identification check os_abi and abi_version are
\* the bytes at offsets 7 and 8, whatever their values, in the bindings and
\* in the File Header, and no value of them is rejected.
C8_AbiBytesVerbatim ==
    (IdentValid(buffer) /\ pc # "start") =>
        /\ locals.os_abi = buffer[8]
        /\ locals.abi_version = buffer[9]
        /\ result.kind = "Ok" =>
               /\ result.val.os_abi = buffer[8]
               /\ result.val.abi_version = buffer[9]
        /\ result.kind = "Err" => result.err.tag \notin IdentErrorTags
        /\ result.kind # "Panic"

\* C8 witness: OS/ABI 254 with ABI version 255 has been decoded
C8_Witness ==
    /\ IdentValid(buffer)
    /\ buffer[8] = 254 /\ buffer[9] = 255
    /\ result.kind = "Ok"
    /\ result.val.os_abi = 254 /\ result.val.abi_version = 255

\* the u32 stored little-endian at 0-based offset off of buf
Le32At(buf, off) == U32(Le16At(buf, off + 2), Le16At(buf, off))

\* the seven known program-header type codes and their HeaderType
KnownHeaderTypes ==
    { <<U32(0, 0), "Null">>, <<U32(0, 1), "Load">>, <<U32(0, 2), "Dynamic">>,
      <<U32(0, 3), "Interpreter">>, <<U32(0, 4), "Note">>,
      <<U32(0, 6), "ProgramHeaderTable">>, <<U32(25716, 58705), "GnuStack">> }

KnownTypeCodes == { k[1] : k \in KnownHeaderTypes }

\* the ProgramHeader held by the 32 bytes at 0-based offset off of buf
EntryAt(buf, off) ==
    [header_type |-> (CHOOSE k \in KnownHeaderTypes : k[1] = Le32At(buf, off))[2],
     offset |-> Le32At(buf, off + 4),
     virtual_address |-> Le32At(buf, off + 8),
     physical_address |-> Le32At(buf, off + 12),
     size_in_file |-> Le32At(buf, off + 16),
     size_in_memory |-> Le32At(buf, off + 20),
     flags |-> Le32At(buf, off + 24),
     alignment |-> Le32At(buf, off + 28)]

\* the declared table of header h: offset and entry count
TableOffset(h) == ToUsize(h.program_header_offset)
TableCount(h) == h.program_header_entries

\* entry i (from 0) of the declared table lies in buf and has a known type
EntryWellFormed(buf, h, i) ==
    /\ TableOffset(h) + 32 * (i + 1) <= Len(buf)
    /\ Le32At(buf, TableOffset(h) + 32 * i) \in KnownTypeCodes

\* C9: a well-formed header declaring N program-header entries decodes to
\* a table of exactly N entries, entry i being the 32 bytes at
\* program_header_offset + 32*i, wherever the header decode left its cursor.
C9_TableInFileOrder ==
    (pc = "done" /\ result.kind = "Ok"
       /\ \A i \in 0..(TableCount(result.val) - 1) :
              EntryWellFormed(buffer, result.val, i)) =>
        /\ table_result.kind = "Ok"
        /\ Len(table_result.val) = TableCount(result.val)
        /\ \A i \in 0..(TableCount(result.val) - 1) :
               table_result.val[i + 1]
                   = EntryAt(buffer, TableOffset(result.val) + 32 * i)

\* C9 witness: a table of two different entries, not adjacent to the
\* header, has been decoded
C9_Witness ==
    /\ pc = "done"
    /\ result.kind = "Ok"
    /\ TableOffset(result.val) > 52
    /\ table_result.kind = "Ok"
    /\ Len(table_result.val) = 2
    /\ table_result.val[1].header_type = "GnuStack"
    /\ table_result.val[2].header_type = "Load"
    /\ table_result.val[2].alignment = U32(65535, 65534)

\* entry i (from 0) is the first of the declared table with an unknown
\* type code: the entries before it are well formed and its code is in buf
FirstUnknown(buf, h, i) ==
    /\ i < TableCount(h)
    /\ \A j \in 0..(i - 1) : EntryWellFormed(buf, h, j)
    /\ TableOffset(h) + 32 * i + 4 <= Len(buf)
    /\ Le32At(buf, TableOffset(h) + 32 * i) \notin KnownTypeCodes

\* C10: an unknown program-header type code at any table position fails
\* the whole table decode with the unsupported-program-header-type error
\* carrying that code, and none of the entries decoded before it is kept.
C10_UnknownTypeFailsTable ==
    (pc = "done" /\ result.kind = "Ok") =>
        \A i \in 0..MaxPhnum :
            FirstUnknown(buffer, result.val, i) =>
                /\ table_result
                     = Err(UnsupportedProgramHeaderType(
                               Le32At(buffer, TableOffset(result.val) + 32 * i)))
                /\ table = <<>>

\* C10 witness: the second entry has the unknown code 7 behind a good first
\* entry, and the decode has failed with that code
C10_Witness ==
    /\ pc = "done"
    /\ result.kind = "Ok"
    /\ FirstUnknown(buffer, result.val, 1)
    /\ table_result = Err(UnsupportedProgramHeaderType(U32(0, 7)))
    /\ table = <<>>

-----------------------------------------------------------------------------
(* The cursor on its own: Parser::new over a buffer, then reads and skips  *)
(* in any order.  pc names the last method called, result is the Result of *)
(* the last read.                                                          *)

\* longest buffer under the cursor
MaxCursorLen == 6
\* skips stop once the offset would pass this
MaxCursorOffset == 10

CursorBuffers ==
    { [i \in 1..n |-> (37 * i + k) % 256] : n \in 0..MaxCursorLen, k \in {0, 200} }

CursorInit ==
    /\ buffer \in CursorBuffers
    /\ pc = "new"
    /\ parser = ParserNew(buffer)
    /\ locals = NoLocals
    /\ result = Pending
    /\ table = <<>>
    /\ table_result = Pending

\* a call of a read method that returned r
CursorRead(method, r) ==
    /\ pc' = method
    /\ parser' = r.parser
    /\ result' = r.res
    /\ UNCHANGED <<buffer, locals, table, table_result>>

\* a call of a skip method that left the parser p
CursorSkip(method, p) ==
    /\ p.offset <= MaxCursorOffset
    /\ pc' = method
    /\ parser' = p
    /\ UNCHANGED <<buffer, locals, result, table, table_result>>

CursorParseU8 == CursorRead("parse_u8", parse_u8(parser))
CursorParseU16 == CursorRead("parse_u16", parse_u16(parser))
CursorParseU32 == CursorRead("parse_u32", parse_u32(parser))
CursorSkipU8 == CursorSkip("skip_u8", skip_u8(parser))
CursorSkipU16 == CursorSkip("skip_u16", skip_u16(parser))
CursorSkipU32 == CursorSkip("skip_u32", skip_u32(parser))

CursorNext ==
    \/ CursorParseU8
    \/ CursorParseU16
    \/ CursorParseU32
    \/ CursorSkipU8
    \/ CursorSkipU16
    \/ CursorSkipU32

CursorSpec == CursorInit /\ [][CursorNext]_vars

\* the read methods and the width of what each reads
ReadMethods == {"parse_u8", "parse_u16", "parse_u32"}
WidthOf(method) ==
    CASE method = "parse_u8" -> 1
      [] method = "parse_u16" -> 2
      [] method = "parse_u32" -> 4

\* C11: every read, from any cursor state, either succeeds and advances
\* the offset by exactly the width read, or fails with
\* SliceReadError((offset, offset + width)) and leaves the offset as it was;
\* the buffer is the same afterwards in both cases.
C11_ReadAdvancesOrFails ==
    [][ pc' \in ReadMethods =>
          /\ buffer' = buffer
          /\ parser'.buffer = parser.buffer
          /\ \/ /\ result'.kind = "Ok"
                /\ parser'.offset = parser.offset + WidthOf(pc')
             \/ /\ result'
                     = Err(SliceReadError(parser.offset,
                                          parser.offset + WidthOf(pc')))
                /\ parser'.offset = parser.offset ]_vars

\* C11 witness: a 2-byte read has failed with one byte left
C11_Witness ==
    /\ pc = "parse_u16"
    /\ parser.offset + 1 = Len(parser.buffer)
    /\ result = Err(SliceReadError(parser.offset, parser.offset + 2))

\* C12: after any sequence of reads and skips, a read that has succeeded
\* leaves the offset at most at the buffer length.
C12_OffsetWithinBufferAfterRead ==
    (pc \in ReadMethods /\ result.kind = "Ok") => parser.offset <= Len(parser.buffer)

\* C12 witness: a read has succeeded behind a skip and has used up the buffer
C12_Witness ==
    /\ pc = "parse_u8"
    /\ result.kind = "Ok"
    /\ parser.offset = Len(parser.buffer)
    /\ parser.offset >= 5

\* C13: a successful file-header decode consumes exactly 36 bytes of
\* buffer[16..]: before each field read the cursor is at that field's ELF32
\* offset minus 16 (0, 2, 8, 12, 16, 24, 26, 28, 30, 32, 34), and it ends
\* at 36.
C13_HeaderConsumes36 ==
    /\ \A f \in HeaderLayout :
           (f.read /\ pc = f.name) =>
               /\ parser.offset = f.offset
               /\ parser.buffer = SubSeq(buffer, 17, Len(buffer))
    /\ pc \in {"build", "header_done"} =>
           /\ parser.offset = 36
           /\ parser.buffer = SubSeq(buffer, 17, Len(buffer))
    /\ (result.kind = "Ok" /\ pc = "header_done") => Len(buffer) >= 16 + 36

\* C13 witness: a header in front of further bytes has been decoded, and
\* the cursor stands at 36
C13_Witness ==
    /\ pc = "header_done"
    /\ result.kind = "Ok"
    /\ Len(buffer) > 52
    /\ parser.offset = 36

\* C14: from 16 bytes on, parse_elf_header_32 succeeds exactly when the
\* identification checks pass, the file-type code is in 0..4 and the
\* buffer holds at least 52 bytes; the machine code never matters, and the
\* decoded machine is the raw code.
C14_SuccessExactlyWhenValid ==
    (HeaderDecided /\ Len(buffer) >= 16) =>
        /\ result.kind = "Ok"
               <=> /\ IdentValid(buffer)
                   /\ Len(buffer) >= 52
                   /\ Le16At(buffer, 16) \in 0..4
        /\ result.kind = "Ok" => result.val.machine = Le16At(buffer, 18)

\* C14 witness: a header with the unassigned machine code 0xFFFF has been
\* decoded
C14_Witness ==
    /\ result.kind = "Ok"
    /\ At(buffer, 18, <<255, 255>>)
    /\ result.val.machine = 65535

\* 0-based offsets of the bytes the decoder does not validate: the 7
\* identification padding bytes, the version field and the flags field
UnvalidatedOffsets == (9..15) \cup (20..23) \cup (36..39)

\* buf with its unvalidated bytes blanked: two buffers of equal length
\* differ in those bytes only exactly when Blanked maps them to one buffer
Blanked(buf) ==
    [i \in 1..Len(buf) |-> IF (i - 1) \in UnvalidatedOffsets THEN 0 ELSE buf[i]]

\* the outcome of the decode read off the bytes of buf directly
OutcomeOf(buf) ==
    IF Len(buf) < 16 THEN Panic
    ELSE IF ~At(buf, 0, <<127, 69, 76, 70>>) THEN Err(BadMagic(SubSeq(buf, 1, 4)))
    ELSE IF buf[5] # 1 THEN Err(UnsupportedElfClass(buf[5]))
    ELSE IF buf[6] # 1 THEN Err(UnsupportedElfEndianness(buf[6]))
    ELSE IF buf[7] # 1 THEN Err(UnsupportedVersion(buf[7], 1))
    ELSE IF Len(buf) < 18 THEN Err(SliceReadError(0, 2))
    ELSE IF Le16At(buf, 16) \notin 0..4
    THEN Err(UnsupportedFileType(Le16At(buf, 16)))
    ELSE LET short == { f \in HeaderLayout :
                          f.read /\ Len(buf) < 16 + f.offset + f.width }
         IN  IF short # {}
             THEN LET f == CHOOSE f \in short :
                               \A g \in short : f.offset <= g.offset
                  IN  Err(SliceReadError(f.offset, f.offset + f.width))
             ELSE Ok([os_abi |-> buf[8], abi_version |-> buf[9],
                      file_type |-> <<"None", "Rel", "Exec", "Dyn", "Core">>
                                        [Le16At(buf, 16) + 1],
                      machine |-> Le16At(buf, 18),
                      entry |-> Le32At(buf, 24),
                      program_header_offset |-> Le32At(buf, 28),
                      section_header_offset |-> Le32At(buf, 32),
                      elf_header_size |-> Le16At(buf, 40),
                      program_header_entry_size |-> Le16At(buf, 42),
                      program_header_entries |-> Le16At(buf, 44),
                      section_header_entry_size |-> Le16At(buf, 46),
                      section_header_entries |-> Le16At(buf, 48),
                      string_table_index |-> Le16At(buf, 50)])

\* C15: the result of parse_elf_header_32 does not depend on the bytes at
\* offsets 9..15, 20..23 and 36..39: it is the outcome read off the buffer
\* with those bytes blanked, so every input buffer of the same length that
\* differs in those bytes only has the same outcome, header or error.
C15_UnvalidatedBytesDoNotMatter ==
    HeaderDecided =>
        /\ result = OutcomeOf(Blanked(buffer))
        /\ \A other \in UnvalidatedBuffers :
               (Len(other) = Len(buffer) /\ Blanked(other) = Blanked(buffer))
                   => OutcomeOf(other) = result

\* C15 witness: a buffer whose padding, version and flags bytes are all
\* nonzero has been decoded to a header, and an input buffer that differs
\* from it in those bytes only exists
C15_Witness ==
    /\ pc = "header_done"
    /\ result.kind = "Ok"
    /\ Len(buffer) = 52
    /\ \A o \in UnvalidatedOffsets : buffer[o + 1] # 0
    /\ \E other \in UnvalidatedBuffers \cup HeaderBuffers :
           /\ Len(other) = Len(buffer)
           /\ other # buffer
           /\ Blanked(other) = Blanked(buffer)

\* C15 witness on the error side: a buffer cut inside the flags field, with
\* nonzero version bytes, has failed at the read behind the flags
C15_ErrorWitness ==
    /\ result = Err(SliceReadError(24, 26))
    /\ Len(buffer) = 38
    /\ buffer[21] = 255
    /\ buffer[37] # 0

====
